---- MODULE Spec2Model ----
(***************************************************************************)
(* Model of the analytical queries of projet/streamlit_app.py: the page    *)
(* handlers show_home, show_temporal_analysis, show_geographic_analysis    *)
(* (with show_department_analysis), show_gender_comparison and             *)
(* show_name_search, each run against the cached DataFrame df.             *)
(*                                                                         *)
(* A DataFrame is a sequence of records (rows, in index order).  A name    *)
(* and a search term are sequences of one-character strings, so that the   *)
(* search of str.contains and the ordering of names are computed.          *)
(* 'Garçon' is written "Garcon".                                           *)
(***************************************************************************)
EXTENDS Integers, Sequences, FiniteSets, TLC

VARIABLES store, page, input, outcome, out

vars == <<store, page, input, outcome, out>>

(***************************************************************************)
(* Bounds of the model.                                                    *)
(***************************************************************************)
\* most rows of a DataFrame that holds one row per name
MaxNames == 4
\* most rows of a DataFrame whose rows may share a name
MaxRows == 2
\* longest search term typed into the text input
MaxTerm == 1
\* largest value taken from the "Nombre de prénoms à afficher" slider (3..20)
MaxTopN == 3
\* largest value taken from the "Nombre de prénoms par sexe" slider (5..15)
MaxTopNGender == 5
\* rows of a DataFrame that holds one row per department and name
MaxDeptRows == 3

(***************************************************************************)
(* Constants of the program.                                               *)
(***************************************************************************)
TopNMin == 3
TopNMax == 20
TopNHome == 10
TopNDept == 10
TopNDeptEvolution == 5
TopNGenderMin == 5
TopNGlobal == 20
TopNDeptChart == 15
TopNSearchDept == 10
GeoYearStep == 10
GenderYearStep == 5

(***************************************************************************)
(* The values of the columns.                                              *)
(***************************************************************************)
Years == {1900, 1910}
Sexes == {"Fille", "Garcon"}
DptCodes == <<"01", "02">>
Dpts == {DptCodes[i] : i \in 1..Len(DptCodes)}
Counts == {1, 2}
Names == {<<"A">>, <<"B">>, <<"A", "B">>, <<"B", "A">>}
TwoNames == {<<"A">>, <<"A", "B">>}
\* the characters typed into the search box
TypedChars == {"a", ".", "(", " "}

Min(a, b) == IF a <= b THEN a ELSE b

\* code point of a character: Python compares strings by code point
Code(c) == CASE c = " " -> 32 [] c = "(" -> 40 [] c = "." -> 46 [] c = "A" -> 65 [] c = "B" -> 66

\* a < b for two strings
StrLess(a, b) ==
    \E i \in 1..(Min(Len(a), Len(b)) + 1) :
        /\ \A j \in 1..(i - 1) : a[j] = b[j]
        /\ IF i > Len(a) THEN i <= Len(b)
           ELSE i <= Len(b) /\ Code(a[i]) < Code(b[i])

SexRank(s) == IF s = "Fille" THEN 1 ELSE 2

DptRank(d) == CHOOSE i \in 1..Len(DptCodes) : DptCodes[i] = d

\* a < b for two values of column dim
ValLess(dim, a, b) ==
    CASE dim = "year" -> a < b
      [] dim = "name" -> StrLess(a, b)
      [] dim = "sex" -> SexRank(a) < SexRank(b)
      [] dim = "dpt" -> DptRank(a) < DptRank(b)

\* the group key of row r for the columns dims
Key(r, dims) == [i \in 1..Len(dims) |-> r[dims[i]]]

\* k1 < k2 for two group keys over the columns dims
KeyLess(dims, k1, k2) ==
    \E i \in 1..Len(dims) :
        /\ \A j \in 1..(i - 1) : k1[j] = k2[j]
        /\ ValLess(dims[i], k1[i], k2[i])

RECURSIVE SortKeys(_, _)
\* the keys of S in ascending order
SortKeys(dims, S) ==
    IF S = {} THEN <<>>
    ELSE LET m == CHOOSE x \in S : \A y \in S : ~KeyLess(dims, y, x)
         IN  <<m>> \o SortKeys(dims, S \ {m})

RECURSIVE SumCount(_)
\* frame['count'].sum()
SumCount(frame) ==
    IF frame = <<>> THEN 0 ELSE Head(frame).count + SumCount(Tail(frame))

\* the distinct values of a column
Unique(frame, dim) == {frame[i][dim] : i \in 1..Len(frame)}

\* groupby(dims)['count'].first() in place of .sum(): each key with the count
\* of its first row
groupby_first(frame, dims) ==
    LET keys == SortKeys(dims, {Key(frame[i], dims) : i \in 1..Len(frame)})
    IN  [i \in 1..Len(keys) |->
            [key |-> keys[i],
             count |-> Head(SelectSeq(frame, LAMBDA r : Key(r, dims) = keys[i])).count]]

\* frame.groupby(dims)['count'].sum(): one row per key, in key order
groupby_sum(frame, dims) ==
    LET keys == SortKeys(dims, {Key(frame[i], dims) : i \in 1..Len(frame)})
    IN  [i \in 1..Len(keys) |->
            [key |-> keys[i],
             count |-> SumCount(SelectSeq(frame, LAMBDA r : Key(r, dims) = keys[i]))]]

MaxCount(rows, I) == CHOOSE c \in {rows[i].count : i \in I} :
                        \A i \in I : rows[i].count <= c

MinCount(rows, I) == CHOOSE c \in {rows[i].count : i \in I} :
                        \A i \in I : c <= rows[i].count

RECURSIVE AscOrders(_, _)
\* the orders of the rows I of rows in which count never decreases
AscOrders(rows, I) ==
    IF I = {} THEN {<<>>}
    ELSE LET low == {i \in I : rows[i].count = MinCount(rows, I)}
         IN  UNION {{<<rows[i]>> \o t : t \in AscOrders(rows, I \ {i})} : i \in low}

\* sort_values() without ascending=False
sort_values_asc(rows) == AscOrders(rows, 1..Len(rows))

RECURSIVE DescOrders(_, _)
\* the orders of the rows I of rows in which count never increases
DescOrders(rows, I) ==
    IF I = {} THEN {<<>>}
    ELSE LET top == {i \in I : rows[i].count = MaxCount(rows, I)}
         IN  UNION {{<<rows[i]>> \o t : t \in DescOrders(rows, I \ {i})} : i \in top}

\* rows.sort_values(ascending=False) with the default kind='quicksort', which
\* is not stable: every order of equal counts is a possible result
sort_values_desc(rows) == DescOrders(rows, 1..Len(rows))

\* s.head(n)
head(s, n) == SubSeq(s, 1, Min(n, Len(s)))

\* the label of the first row with the largest count
idxmax(rows) ==
    CHOOSE i \in 1..Len(rows) :
        /\ rows[i].count = MaxCount(rows, 1..Len(rows))
        /\ \A j \in 1..(i - 1) : rows[j].count # rows[i].count

RECURSIVE StableDesc(_, _)
StableDesc(rows, I) ==
    IF I = {} THEN <<>>
    ELSE LET i == CHOOSE k \in I : /\ rows[k].count = MaxCount(rows, I)
                                   /\ \A j \in I : rows[j].count = rows[k].count => k <= j
         IN  <<rows[i]>> \o StableDesc(rows, I \ {i})

\* rows.nlargest(n, 'count'), keep='first': equal counts stay in row order
nlargest(rows, n) == head(StableDesc(rows, 1..Len(rows)), n)

\* the keys of a table, as a sequence of the single column's values
KeysOf(rows) == [i \in 1..Len(rows) |-> rows[i].key[1]]

(***************************************************************************)
(* The DataFrames df the program is run on: load_data() has renamed the    *)
(* columns, typed year and count as integers, upper-cased the names and    *)
(* mapped the sexes.  The file is not empty.  Three families of frames     *)
(* are drawn from, in every order of their rows: frames of one department, *)
(* year and sex with one row per name (up to MaxNames names, enough for a  *)
(* top-n to cut rows off), frames of one year and sex whose rows differ in *)
(* department, name and count, frames of one name whose rows differ in     *)
(* year, sex and department, and frames of one year and sex with one row   *)
(* per department and name (MaxDeptRows rows, enough for a department to   *)
(* hold several names while another holds one).                            *)
(* The sliders are modelled by the values they deliver.                    *)
(***************************************************************************)
\* one department, one year, one sex: the rows differ in name and count
NameRows == [year : {1900}, name : Names, sex : {"Fille"}, dpt : {"01"}, count : Counts]
\* one year, one sex: the rows differ in department, name and count
PlaceRows == [year : {1900}, name : TwoNames, sex : {"Fille"}, dpt : Dpts, count : Counts]
\* one name: the rows differ in year, sex and department
TimeRows == [year : Years, name : {<<"A">>}, sex : Sexes, dpt : Dpts, count : {1}]

SeqsUpTo(S, n) == UNION {[1..k -> S] : k \in 1..n}

NameFrames == {f \in SeqsUpTo(NameRows, MaxNames) :
                  \A i, j \in 1..Len(f) : f[i].name = f[j].name => i = j}

\* one row per department and name, as in the file load_data() reads
DeptFrames == {f \in [1..MaxDeptRows -> PlaceRows] :
                  \A i, j \in 1..Len(f) :
                      (f[i].dpt = f[j].dpt /\ f[i].name = f[j].name) => i = j}

Frames == NameFrames \cup SeqsUpTo(PlaceRows, MaxRows) \cup SeqsUpTo(TimeRows, MaxRows)
              \cup DeptFrames

\* what the user can type into the text input
TypedTerms == UNION {[1..k -> TypedChars] : k \in 0..MaxTerm}

\* str.upper()
upper(t) == [i \in 1..Len(t) |-> IF t[i] = "a" THEN "A" ELSE t[i]]

RECURSIVE strip(_)
\* str.strip(): without the spaces at either end
strip(t) ==
    IF t = <<>> THEN t
    ELSE IF Head(t) = " " THEN strip(Tail(t))
    ELSE IF t[Len(t)] = " " THEN strip(SubSeq(t, 1, Len(t) - 1))
    ELSE t

YearMin(df) == CHOOSE y \in Unique(df, "year") : \A z \in Unique(df, "year") : y <= z
YearMax(df) == CHOOSE y \in Unique(df, "year") : \A z \in Unique(df, "year") : z <= y

\* the values a slider from lo to hi with the given step can deliver
SliderValues(lo, hi, step) == {v \in lo..hi : (v - lo) % step = 0}

(***************************************************************************)
(* The pieces of pandas the handlers use.                                  *)
(***************************************************************************)
\* an empty selection read as no selection: every value passes
isin_or_all(v, values) == values = {} \/ v \in values

\* series.isin(values)
isin(v, values) == v \in values

\* re.compile(pat) raises re.error: over TypedChars, exactly the patterns with
\* an opening parenthesis, which nothing closes
regex_invalid(pat) == \E k \in 1..Len(pat) : pat[k] = "("

\* re.search(pat, s) for a pattern of literals and '.', which matches any
\* character
regex_search(pat, s) ==
    \E i \in 0..(Len(s) - Len(pat)) :
        \A k \in 1..Len(pat) : pat[k] = "." \/ pat[k] = s[i + k]

\* series.str.contains(pat, na=False): regex=True is the default
str_contains(s, pat) == regex_search(pat, s)

\* the rows of df dropped in place: the cache is left with the derived frame
df_filtered_inplace(df, derived) == derived

\* the DataFrame the cache holds once a handler has run on df: no handler
\* assigns to df or changes it in place, and every derived frame is a new
\* object
df_after(df, derived) == df

\* the rows of the temporal analysis
temporal_filter(df, year_range, sex_options, selected_dept) ==
    LET filtered_df == SelectSeq(df, LAMBDA r :
                           /\ r.year >= year_range[1]
                           /\ r.year <= year_range[2]
                           /\ isin(r.sex, sex_options))
    IN  IF selected_dept # "Tous"
        THEN SelectSeq(filtered_df, LAMBDA r : r.dpt = selected_dept)
        ELSE filtered_df

\* nothing: no input read, nothing computed
None == [none |-> TRUE]

Pages == {"home", "temporal", "geo", "gender", "search"}

Init ==
    /\ store \in Frames
    /\ page = "start"
    /\ input = None
    /\ outcome = "none"
    /\ out = None

(***************************************************************************)
(* main(): a run of the script.  load_data() returns the cached DataFrame, *)
(* the sidebar's selectbox gives the page, and the page's handler runs.    *)
(***************************************************************************)
main ==
    /\ outcome = "none"
    /\ \E p \in Pages : page' = p
    /\ outcome' = "running"
    /\ input' = None
    /\ out' = None
    /\ store' = store

(***************************************************************************)
(* The user touches a widget: Streamlit drops what the last run rendered   *)
(* and runs the script again, from the top.                                *)
(***************************************************************************)
rerun ==
    /\ outcome \notin {"none", "running"}
    /\ page' = "start"
    /\ outcome' = "none"
    /\ input' = None
    /\ out' = None
    /\ store' = store

(***************************************************************************)
(* show_home(df)                                                           *)
(***************************************************************************)
show_home ==
    /\ page = "home" /\ outcome = "running"
    /\ \E ranked \in sort_values_desc(groupby_sum(store, <<"name">>)) :
        /\ page' = page
        /\ input' = None
        /\ outcome' = "result"
        /\ out' = [total_births |-> SumCount(store),
                   unique_names |-> Cardinality(Unique(store, "name")),
                   years_span |-> <<YearMin(store), YearMax(store)>>,
                   departments |-> Cardinality(Unique(store, "dpt")),
                   totals |-> groupby_sum(store, <<"name">>),
                   top_names |-> head(ranked, TopNHome),
                   yearly_births |-> groupby_sum(store, <<"year">>)]
        /\ store' = df_after(store, out'.yearly_births)

(***************************************************************************)
(* show_temporal_analysis(df)                                              *)
(***************************************************************************)
show_temporal_analysis ==
    /\ page = "temporal" /\ outcome = "running"
    /\ \E lo \in Unique(store, "year"), hi \in Unique(store, "year"),
          sex_options \in SUBSET Sexes,
          selected_dept \in {"Tous"} \cup Unique(store, "dpt"),
          top_n \in TopNMin..MaxTopN :
        /\ lo <= hi
        /\ LET year_range == <<lo, hi>>
               filtered_df == temporal_filter(store, year_range, sex_options, selected_dept)
               totals == groupby_sum(filtered_df, <<"name">>)
           IN  /\ page' = page
               /\ input' = [year_range |-> year_range, sex_options |-> sex_options,
                            selected_dept |-> selected_dept, top_n |-> top_n]
               /\ IF filtered_df = <<>>
                  THEN /\ outcome' = "empty"
                       /\ out' = [filtered_df |-> filtered_df]
                  ELSE \E ranked \in sort_values_desc(totals) :
                          LET top == head(ranked, top_n)
                              top_names == KeysOf(top)
                              viz_df == SelectSeq(filtered_df, LAMBDA r :
                                            \E i \in 1..Len(top_names) : top_names[i] = r.name)
                          IN  /\ outcome' = "result"
                              /\ out' = [filtered_df |-> filtered_df,
                                         totals |-> totals,
                                         top |-> top,
                                         top_names |-> top_names,
                                         viz_df |-> viz_df,
                                         yearly_data |-> groupby_sum(viz_df, <<"year", "name">>),
                                         total_births |-> SumCount(filtered_df),
                                         unique_names |-> Cardinality(Unique(filtered_df, "name")),
                                         most_popular |-> top_names[1]]
               /\ store' = df_after(store, filtered_df)

(***************************************************************************)
(* show_geographic_analysis(df, geo_df), which ends with                   *)
(* show_department_analysis(df, selected_dept_code, geo_df)                *)
(***************************************************************************)
\* the rows of the geographic analysis
geo_filter(df, selected_year, sex_filter) ==
    LET map_data == SelectSeq(df, LAMBDA r : r.year = selected_year)
    IN  IF sex_filter # "Tous"
        THEN SelectSeq(map_data, LAMBDA r : r.sex = sex_filter)
        ELSE map_data

\* the rows of table, a table grouped by (dpt, ...), that belong to dpt d, as
\* the set of their labels
LabelsOfDpt(table, d) == {i \in 1..Len(table) : table[i].key[1] = d}

\* idxmax that keeps the last row of each dpt holding the dpt's largest count
groupby_idxmax_last(table) ==
    LET dpts == SortKeys(<<"dpt">>, {<<table[i].key[1]>> : i \in 1..Len(table)})
    IN  [g \in 1..Len(dpts) |->
            LET I == LabelsOfDpt(table, dpts[g][1])
            IN  CHOOSE i \in I : /\ table[i].count = MaxCount(table, I)
                                 /\ \A j \in I : table[j].count = table[i].count => j <= i]

\* table['count'].idxmax(), without the groupby: the one largest row of all
idxmax_ungrouped(table) == <<idxmax(table)>>

\* table.groupby('dpt')['count'].idxmax(): for each dpt in ascending order, the
\* label of the first row of the dpt that holds the dpt's largest count
groupby_idxmax(table) ==
    LET dpts == SortKeys(<<"dpt">>, {<<table[i].key[1]>> : i \in 1..Len(table)})
    IN  [g \in 1..Len(dpts) |->
            LET I == LabelsOfDpt(table, dpts[g][1])
            IN  CHOOSE i \in I : /\ table[i].count = MaxCount(table, I)
                                 /\ \A j \in I : table[j].count = table[i].count => i <= j]

\* table.loc[idx].reset_index(drop=True)
loc(table, idx) == [g \in 1..Len(idx) |-> table[idx[g]]]

\* show_department_analysis(df, dept_code, geo_df), given the order the sort
\* of the department's names came out in
department_analysis(df, dept_code, ranked) ==
    LET dept_data == SelectSeq(df, LAMBDA r : r.dpt = dept_code)
        top_names_dept == head(ranked, TopNDept)
        top_5_names == KeysOf(head(top_names_dept, TopNDeptEvolution))
        shown == SelectSeq(dept_data, LAMBDA r :
                     \E i \in 1..Len(top_5_names) : top_5_names[i] = r.name)
    IN  IF dept_data = <<>> THEN None
        ELSE
        [dept_data |-> dept_data,
         totals |-> groupby_sum(dept_data, <<"name">>),
         top_names_dept |-> top_names_dept,
         evolution_data |-> groupby_sum(shown, <<"year", "name">>)]

show_geographic_analysis ==
    /\ page = "geo" /\ outcome = "running"
    /\ \E geo_df \in {"None", "loaded"},
          selected_year \in SliderValues(YearMin(store), YearMax(store), GeoYearStep),
          sex_filter \in {"Tous"} \cup Sexes,
          selected_dept_code \in Unique(store, "dpt") :
        LET map_data == geo_filter(store, selected_year, sex_filter)
            by_dept_name == groupby_sum(map_data, <<"dpt", "name">>)
            top_by_dept == loc(by_dept_name, groupby_idxmax(by_dept_name))
            dept_data == SelectSeq(store, LAMBDA r : r.dpt = selected_dept_code)
        IN  /\ page' = page
            /\ store' = df_after(store, map_data)
            /\ IF geo_df = "None"
               THEN /\ input' = [geo_df |-> geo_df]
                    /\ outcome' = "geo_missing"
                    /\ out' = None
               ELSE IF map_data = <<>>
               THEN /\ input' = [geo_df |-> geo_df, selected_year |-> selected_year,
                                 sex_filter |-> sex_filter]
                    /\ outcome' = "empty"
                    /\ out' = [map_data |-> map_data]
               ELSE \E ranked \in sort_values_desc(groupby_sum(dept_data, <<"name">>)) :
                    /\ input' = [geo_df |-> geo_df, selected_year |-> selected_year,
                                 sex_filter |-> sex_filter,
                                 selected_dept_code |-> selected_dept_code]
                    /\ outcome' = "result"
                    /\ out' = [map_data |-> map_data,
                               by_dept_name |-> by_dept_name,
                               top_by_dept |-> top_by_dept,
                               top_depts |-> nlargest(top_by_dept, TopNDeptChart),
                               department |-> department_analysis(store, selected_dept_code,
                                                                  ranked)]

(***************************************************************************)
(* show_gender_comparison(df)                                              *)
(***************************************************************************)
show_gender_comparison ==
    /\ page = "gender" /\ outcome = "running"
    /\ \E selected_year \in SliderValues(YearMin(store), YearMax(store), GenderYearStep),
          top_n_gender \in TopNGenderMin..MaxTopNGender :
        LET of_sex(s) == SelectSeq(store, LAMBDA r : r.sex = s)
        IN  \E filles \in sort_values_desc(groupby_sum(of_sex("Fille"), <<"name">>)),
               garcons \in sort_values_desc(groupby_sum(of_sex("Garcon"), <<"name">>)) :
            LET top_names_by_sex == [Fille |-> KeysOf(head(filles, top_n_gender)),
                                     Garcon |-> KeysOf(head(garcons, top_n_gender))]
                all_top_names == top_names_by_sex.Fille \o top_names_by_sex.Garcon
                selected == SelectSeq(store, LAMBDA r :
                                /\ r.year = selected_year
                                /\ \E i \in 1..Len(all_top_names) : all_top_names[i] = r.name)
                year_data == groupby_sum(selected, <<"name", "sex">>)
                sex_comparison == groupby_sum(store, <<"name", "sex">>)
            IN  /\ page' = page
                /\ input' = [selected_year |-> selected_year, top_n_gender |-> top_n_gender]
                /\ outcome' = "result"
                /\ out' = [top_names_by_sex |-> top_names_by_sex,
                           year_data |-> year_data,
                           total_year |-> SumCount(selected),
                           filles_total |-> SumCount(SelectSeq(selected,
                                                LAMBDA r : r.sex = "Fille")),
                           garcons_total |-> SumCount(SelectSeq(selected,
                                                LAMBDA r : r.sex = "Garcon")),
                           sex_comparison |-> sex_comparison,
                           top_global |-> nlargest(sex_comparison, TopNGlobal)]
                /\ store' = df_after(store, selected)

(***************************************************************************)
(* show_name_search(df, geo_df)                                            *)
(***************************************************************************)
RECURSIVE InOrderOfAppearance(_)
\* frame['name'].unique(), not sorted: the names in the order they first appear
InOrderOfAppearance(frame) ==
    IF frame = <<>> THEN <<>>
    ELSE LET rest == InOrderOfAppearance(SubSeq(frame, 1, Len(frame) - 1))
             last == frame[Len(frame)].name
         IN  IF \E i \in 1..Len(rest) : rest[i] = last THEN rest ELSE Append(rest, last)

\* sorted(frame['name'].unique())
sorted_names(frame) ==
    LET keys == SortKeys(<<"name">>, {<<n>> : n \in Unique(frame, "name")})
    IN  [i \in 1..Len(keys) |-> keys[i][1]]

\* what the user has picked in a selectbox they have not touched (or that is
\* not on the page)
Untouched == <<>>

\* the value of st.selectbox(label, options): the option the user picked, and
\* the first option (index 0) as long as the user has picked none
selectbox(options, user) == IF user = Untouched THEN options[1] ELSE user

show_name_search ==
    /\ page = "search" /\ outcome = "running"
    /\ page' = page
    /\ \E typed \in TypedTerms :
        LET search_term == strip(upper(typed)) IN
        IF search_term = <<>>
        THEN /\ input' = [search_term |-> search_term]
             /\ outcome' = "no_term"
             /\ out' = None
             /\ store' = df_after(store, <<>>)
        ELSE IF regex_invalid(search_term)
        THEN /\ input' = [search_term |-> search_term]
             /\ outcome' = "error"
             /\ out' = None
             /\ store' = df_after(store, <<>>)
        ELSE LET matches == SelectSeq(store, LAMBDA r : str_contains(r.name, search_term))
                 found_names == sorted_names(matches)
             IN  /\ store' = df_after(store, matches)
                 /\ IF matches = <<>>
                    THEN /\ input' = [search_term |-> search_term]
                         /\ outcome' = "empty"
                         /\ out' = [matches |-> matches]
                    ELSE \E user \in IF Len(found_names) > 1
                                     THEN {Untouched} \cup Unique(matches, "name")
                                     ELSE {Untouched} :
                         LET name_title == IF Len(found_names) > 1
                                           THEN selectbox(found_names, user)
                                           ELSE found_names[1]
                             name_data == IF Len(found_names) > 1
                                          THEN SelectSeq(matches, LAMBDA r : r.name = name_title)
                                          ELSE matches
                             evolution == groupby_sum(name_data, <<"year", "sex">>)
                         IN  \E ranked \in sort_values_desc(groupby_sum(name_data, <<"dpt">>)) :
                             /\ input' = [search_term |-> search_term, selectbox |-> user]
                             /\ outcome' = "result"
                             /\ out' = [matches |-> matches,
                                        found_names |-> found_names,
                                        name_title |-> name_title,
                                        name_data |-> name_data,
                                        total_count |-> SumCount(name_data),
                                        evolution |-> evolution,
                                        sex_data |-> groupby_sum(name_data, <<"sex">>),
                                        peak_data |-> evolution[idxmax(evolution)],
                                        dept_data |-> head(ranked, TopNSearchDept)]

Next ==
    \/ main
    \/ rerun
    \/ show_home
    \/ show_temporal_analysis
    \/ show_geographic_analysis
    \/ show_gender_comparison
    \/ show_name_search

Spec == Init /\ [][Next]_vars

(***************************************************************************)
(* What the claims speak of.                                               *)
(***************************************************************************)
\* the handler of page p has ended with outcome o
Done(p, o) == page = p /\ outcome = o

\* s contains t as a literal substring
Contains(s, t) ==
    \E i \in 0..(Len(s) - Len(t)) : \A k \in 1..Len(t) : t[k] = s[i + k]

RECURSIVE Total(_, _)
\* the sum of the counts of the rows of frame with a label in J
Total(frame, J) ==
    IF J = {} THEN 0
    ELSE LET j == CHOOSE x \in J : TRUE
         IN  frame[j].count + Total(frame, J \ {j})

\* the elements of a sequence
Range(q) == {q[i] : i \in 1..Len(q)}

\* C1: the filtered subset holds exactly the records that satisfy every
\* predicate of the filter: year within the inclusive range, sex in the sex
\* set, region equal to the chosen region when one is given, and name
\* containing the search term as a literal substring when one is given.
C1_FilterExact ==
    /\ (page = "temporal" /\ outcome \in {"empty", "result"}) =>
          out.filtered_df = SelectSeq(store, LAMBDA r :
              /\ input.year_range[1] <= r.year /\ r.year <= input.year_range[2]
              /\ r.sex \in input.sex_options
              /\ (input.selected_dept = "Tous" \/ r.dpt = input.selected_dept))
    /\ (page = "search" /\ outcome \in {"empty", "result", "error"}) =>
          /\ outcome # "error"
          /\ out.matches = SelectSeq(store, LAMBDA r : Contains(r.name, input.search_term))

\* table is the aggregation of frame by dims: one row per distinct key of
\* frame, each with the sum of the counts of the key's rows, and nothing lost
Aggregates(table, frame, dims) ==
    /\ {table[i].key : i \in 1..Len(table)} = {Key(frame[j], dims) : j \in 1..Len(frame)}
    /\ \A i, j \in 1..Len(table) : table[i].key = table[j].key => i = j
    /\ \A i \in 1..Len(table) :
          table[i].count =
              Total(frame, {j \in 1..Len(frame) : Key(frame[j], dims) = table[i].key})
    /\ Total(table, 1..Len(table)) = Total(frame, 1..Len(frame))

\* C2: aggregation yields one row per distinct key tuple present in the
\* subset, each row's totalCount is the sum of the counts of the records of
\* its group, and the totalCounts add up to the sum of the subset's counts.
C2_AggregationConserves ==
    /\ Done("home", "result") =>
          /\ Aggregates(out.totals, store, <<"name">>)
          /\ Aggregates(out.yearly_births, store, <<"year">>)
    /\ Done("temporal", "result") =>
          /\ Aggregates(out.totals, out.filtered_df, <<"name">>)
          /\ Aggregates(out.yearly_data, out.viz_df, <<"year", "name">>)
    /\ Done("geo", "result") =>
          /\ Aggregates(out.by_dept_name, out.map_data, <<"dpt", "name">>)
          /\ Aggregates(out.department.totals, out.department.dept_data, <<"name">>)
    /\ Done("gender", "result") =>
          Aggregates(out.sex_comparison, store, <<"name", "sex">>)
    /\ Done("search", "result") =>
          /\ Aggregates(out.evolution, out.name_data, <<"year", "sex">>)
          /\ Aggregates(out.sex_data, out.name_data, <<"sex">>)

\* several rows of one year were summed, beside a table of several names
C2_Witness ==
    /\ Done("home", "result")
    /\ Len(out.totals) >= 3
    /\ Len(out.yearly_births) = 1
    /\ out.yearly_births[1].count > 3

\* ranked lists the rows by count descending and, among equal counts, by key
\* ascending
RankedWithTieBreak(ranked, dims) ==
    \A i \in 1..(Len(ranked) - 1) :
        \/ ranked[i].count > ranked[i + 1].count
        \/ /\ ranked[i].count = ranked[i + 1].count
           /\ KeyLess(dims, ranked[i].key, ranked[i + 1].key)

\* C3: ranking orders the rows by totalCount descending and rows with equal
\* totalCount by grouping key ascending, so that the top-n is fixed by the
\* set of aggregate rows.
C3_TieBreakAscending ==
    /\ Done("home", "result") => RankedWithTieBreak(out.top_names, <<"name">>)
    /\ Done("temporal", "result") => RankedWithTieBreak(out.top, <<"name">>)
    /\ Done("geo", "result") =>
          RankedWithTieBreak(out.department.top_names_dept, <<"name">>)
    /\ Done("search", "result") => RankedWithTieBreak(out.dept_data, <<"dpt">>)

\* top is a top-n of rows: min(n, number of rows) different rows of rows, and
\* no row left out has a larger count than a row kept
TopOf(top, rows, n) ==
    /\ Len(top) = Min(n, Len(rows))
    /\ Range(top) \subseteq Range(rows)
    /\ \A i, j \in 1..Len(top) : top[i] = top[j] => i = j
    /\ \A r \in Range(rows) \ Range(top) : \A t \in Range(top) : r.count <= t.count

\* C4: the top-n ranking returns exactly min(n, number of rows) rows, all of
\* them rows of the input, and no omitted row has a totalCount strictly
\* larger than a returned row; with n above the number of rows, all rows.
C4_TopNBounded ==
    /\ Done("home", "result") => TopOf(out.top_names, out.totals, TopNHome)
    /\ Done("temporal", "result") =>
          /\ input.top_n >= 1
          /\ TopOf(out.top, out.totals, input.top_n)
          /\ Len(out.totals) <= input.top_n => Range(out.top) = Range(out.totals)
    /\ Done("geo", "result") =>
          TopOf(out.department.top_names_dept, out.department.totals, TopNDept)

\* a ranking that cut rows off, one of them with a smaller count than any kept
C4_Witness ==
    /\ Done("temporal", "result")
    /\ Len(out.totals) > input.top_n
    /\ \E r \in Range(out.totals) \ Range(out.top) :
          \A t \in Range(out.top) : r.count < t.count

\* a ranking asked for more rows than there are
C4_WitnessAll ==
    /\ Done("temporal", "result")
    /\ Len(out.totals) < input.top_n
    /\ Len(out.top) = Len(out.totals)

\* the total of the rows of frame for department d and name n
TotalOf(frame, d, n) ==
    Total(frame, {j \in 1..Len(frame) : frame[j].dpt = d /\ frame[j].name = n})

\* the names department d has in frame
NamesIn(frame, d) == {frame[j].name : j \in {k \in 1..Len(frame) : frame[k].dpt = d}}

\* C5: the most popular name per department is, for each department, the name
\* whose count, summed over that department's records only, is largest in
\* the department and, among the names that share the largest, the smallest
\* in ascending order, whatever the order of the records.
C5_MostFrequentPerPartition ==
    Done("geo", "result") =>
        \A i \in 1..Len(out.top_by_dept) :
            LET d == out.top_by_dept[i].key[1]
                n == out.top_by_dept[i].key[2]
            IN  /\ n \in NamesIn(out.map_data, d)
                /\ out.top_by_dept[i].count = TotalOf(out.map_data, d, n)
                /\ \A m \in NamesIn(out.map_data, d) :
                      \/ TotalOf(out.map_data, d, m) < TotalOf(out.map_data, d, n)
                      \/ /\ TotalOf(out.map_data, d, m) = TotalOf(out.map_data, d, n)
                         /\ (m = n \/ StrLess(n, m))

\* two names share the largest count of a department, and the records hold
\* the larger name first
C5_Witness ==
    /\ Done("geo", "result")
    /\ Len(store) = 2
    /\ store[1].dpt = store[2].dpt
    /\ StrLess(store[2].name, store[1].name)
    /\ store[1].count = store[2].count
    /\ out.top_by_dept[1].key[2] = store[2].name

\* the larger count of a department wins over the smaller name
C5_WitnessMax ==
    /\ Done("geo", "result")
    /\ Len(store) = 2
    /\ store[1].dpt = store[2].dpt
    /\ StrLess(store[1].name, store[2].name)
    /\ store[1].count < store[2].count
    /\ out.top_by_dept[1].key[2] = store[2].name

\* C6: the most-frequent-per-partition result has exactly one entry per
\* department that occurs in the filtered subset and none for any other
\* department; no department appears twice.
C6_OneEntryPerPartition ==
    Done("geo", "result") =>
        /\ {out.top_by_dept[i].key[1] : i \in 1..Len(out.top_by_dept)}
              = Unique(out.map_data, "dpt")
        /\ \A i, j \in 1..Len(out.top_by_dept) :
              out.top_by_dept[i].key[1] = out.top_by_dept[j].key[1] => i = j

\* a department of the store has no record in the subset and no entry
C6_Witness ==
    /\ Done("geo", "result")
    /\ Cardinality(Unique(store, "dpt")) = 2
    /\ Len(out.top_by_dept) = 1

\* both departments have an entry
C6_WitnessTwo ==
    /\ Done("geo", "result")
    /\ Len(out.top_by_dept) = 2

\* the parameters of a temporal query are malformed
Malformed(q) ==
    \/ q.top_n <= 0
    \/ q.year_range[1] > q.year_range[2]
    \/ q.sex_options = {}

\* C7: malformed query parameters (n <= 0, an inverted year range, an empty
\* sex set) make the query fail with an InvalidArgument outcome, which is
\* not the outcome of a well-formed query that matches no record.
C7_MalformedIsInvalidArgument ==
    (page = "temporal" /\ outcome \notin {"none", "running"} /\ Malformed(input)) =>
        outcome = "invalid_argument"

\* C7, amended: the sliders deliver only n in 3..20 and year ranges with
\* min <= max; an empty sex set is accepted and not replaced by another set,
\* and the temporal query then ends as a query that matches no record does,
\* with the empty subset and the "no data" warning.
C7_EmptySexSetIsEmptyResult ==
    (page = "temporal" /\ outcome \notin {"none", "running"}) =>
        /\ input.top_n \in TopNMin..TopNMax
        /\ input.year_range[1] <= input.year_range[2]
        /\ input.sex_options = {} => (outcome = "empty" /\ out.filtered_df = <<>>)
        /\ outcome \in {"empty", "result"}

\* a temporal query with no sex selected has ended
C7_Witness ==
    /\ page = "temporal"
    /\ outcome = "empty"
    /\ input.sex_options = {}

\* C8: a query whose filter matches no record ends with an empty result and
\* never with an error: no handler fails, and when the rows a handler keeps
\* are none it ends with the empty subset.
C8_EmptyNeverError ==
    /\ outcome # "error"
    /\ (page = "search" /\ outcome \in {"empty", "result"}
          /\ \A i \in 1..Len(store) : ~str_contains(store[i].name, input.search_term)) =>
          (outcome = "empty" /\ out.matches = <<>>)
    /\ (page = "temporal" /\ outcome \in {"empty", "result"}
          /\ temporal_filter(store, input.year_range, input.sex_options,
                             input.selected_dept) = <<>>) =>
          (outcome = "empty" /\ out.filtered_df = <<>>)
    /\ (page = "geo" /\ outcome \in {"empty", "result"}
          /\ geo_filter(store, input.selected_year, input.sex_filter) = <<>>) =>
          (outcome = "empty" /\ out.map_data = <<>>)

\* names is in ascending order, without duplicates
Ascending(names) == \A i \in 1..(Len(names) - 1) : StrLess(names[i], names[i + 1])

\* the names of the store that contain the search term
MatchingNames == {n \in Unique(store, "name") : Contains(n, input.search_term)}

\* C9: when a search term matches more than one name, the search yields all
\* matching names in ascending order, without duplicates, and statistics
\* for a name are computed only after the caller has chosen one of the
\* candidates, from the records of exactly that name.
C9_OnlyAfterExplicitChoice ==
    (Done("search", "result") /\ Cardinality(MatchingNames) > 1) =>
        /\ Ascending(out.found_names)
        /\ Range(out.found_names) = MatchingNames
        /\ input.selectbox # Untouched
        /\ out.name_title = input.selectbox
        /\ \A i \in 1..Len(out.name_data) : out.name_data[i].name = out.name_title

\* C9, amended: when a search term matches more than one name, the search
\* lists all matching names in ascending order, without duplicates; the
\* statistics are those of the name selected among them, which is the
\* caller's choice once made and the first candidate until then, and the
\* records used are the matching records of exactly that name.
C9_CandidatesAndSelection ==
    (Done("search", "result") /\ Cardinality(MatchingNames) > 1) =>
        /\ Ascending(out.found_names)
        /\ Range(out.found_names) = MatchingNames
        /\ out.name_title \in MatchingNames
        /\ out.name_title = (IF input.selectbox = Untouched
                             THEN out.found_names[1] ELSE input.selectbox)
        /\ out.name_data = SelectSeq(store, LAMBDA r : r.name = out.name_title)
        /\ out.total_count = Total(out.name_data, 1..Len(out.name_data))

\* statistics were computed for the first of several candidates, which the
\* records do not hold first, with no choice made
C9_Witness ==
    /\ Done("search", "result")
    /\ Cardinality(MatchingNames) > 2
    /\ input.selectbox = Untouched
    /\ out.matches[1].name # out.found_names[1]

\* C10: no query adds, removes or changes a record of the store.
C10_StoreUnchanged == [][store' = store]_vars

\* a query has kept a part of the rows only, and the store holds them all
C10_Witness ==
    /\ Done("temporal", "result")
    /\ Len(out.filtered_df) < Len(store)
    /\ Len(store) = MaxRows

\* a query has failed
C10_WitnessFailed ==
    /\ Done("search", "error")
    /\ Len(store) = MaxNames

\* the number of births of department d in frame: its counts over all names
BirthsOf(frame, d) == Total(frame, {j \in 1..Len(frame) : frame[j].dpt = d})

\* C11: the chart "Top 15 des départements par nombre de naissances" shows
\* the (at most 15) departments with the largest number of births in the
\* selected year and sex: the departments come in descending order of their
\* total count over all names, and no department left out has more births
\* than one shown.
C11_TopDepartmentsByBirths ==
    Done("geo", "result") =>
        LET shown == [i \in 1..Len(out.top_depts) |-> out.top_depts[i].key[1]]
            present == Unique(out.map_data, "dpt")
        IN  /\ Len(shown) = Min(TopNDeptChart, Cardinality(present))
            /\ Range(shown) \subseteq present
            /\ \A i, j \in 1..Len(shown) : shown[i] = shown[j] => i = j
            /\ \A i \in 1..(Len(shown) - 1) :
                   BirthsOf(out.map_data, shown[i]) >= BirthsOf(out.map_data, shown[i + 1])
            /\ \A d \in present \ Range(shown) : \A i \in 1..Len(shown) :
                   BirthsOf(out.map_data, d) <= BirthsOf(out.map_data, shown[i])

====
